---- MODULE Spec2Model ----
(***************************************************************************)
(* Model of the lexer of src/main.rs: the finite-state scanner `lexer`,    *)
(* the classifier `basic`, and the driver loop of `main`.                  *)
(*                                                                         *)
(* A character is a one-character string; a string of the program (the     *)
(* input text, a lexeme, an output line) is a sequence of characters.      *)
(* One action models one iteration of the `loop` of `lexer` (one per arm   *)
(* of its `match c`, plus the exhausted-stream arm), and one action models *)
(* each step of the loop of `main`.                                        *)
(***************************************************************************)
EXTENDS Naturals, Sequences, FiniteSets

\* ------------------------------------------------------------------ bounds
\* Longest enumerated input text (the sample inputs below are longer).
MaxLen == 4

\* ------------------------------------------------- character classes (59..107)
\* mutant: the '\r' alternative of the whitespace arm is missing
IsWhitespace_NoCR(c) == c \in {" ", "\t", "\n"}

IsWhitespace(c) == c \in {" ", "\t", "\r", "\n"}

IsDot(c) == c = "."

IsSeparator(c) == c \in {"(", ")", ";"}

IsOperator(c) == c \in {"<", ">", "="}

IsDigit(c) == c \in {"0", "1", "2", "3", "4", "5", "6", "7", "8", "9"}

\* the `_` arm of `match c`
IsOther(c) ==
    ~(IsWhitespace(c) \/ IsDot(c) \/ IsSeparator(c) \/ IsOperator(c) \/ IsDigit(c))

\* ------------------------------------------------------------- enum values
States == {"Start", "DefiningIdentifier", "DefiningInteger", "DefiningReal"}

TokenType == {"Identifier", "Number", "Real", "Separator", "Operator", "Keyword"}

LexerError == {"IllegalDot", "InternalStateError", "InvalidIdentifier", "Eof"}

\* Result<Token, LexerError>
Ok(ty, lex) == [tag |-> "Ok", ty |-> ty, lex |-> lex, err |-> "-"]

Err(e) == [tag |-> "Err", ty |-> "-", lex |-> <<>>, err |-> e]

\* `val` of main before the first call of lexer
NoVal == [tag |-> "None", ty |-> "-", lex |-> <<>>, err |-> "-"]

\* char::to_string
to_string(c) == <<c>>

\* the one keyword of `basic`
KwWhile == <<"w", "h", "i", "l", "e">>

\* ------------------------------------------------------------------- basic
\* mutant: no keyword lookup, every identifier-phase lexeme is an Identifier
basic_NoKeyword(s, lex) ==
    CASE s = "Start" -> Err("InternalStateError")
      [] s = "DefiningIdentifier" -> Ok("Identifier", lex)
      [] s = "DefiningInteger" -> Ok("Number", lex)
      [] s = "DefiningReal" -> Ok("Real", lex)

\* mutant: the keyword is matched as a prefix (starts_with) instead of exactly
basic_PrefixKeyword(s, lex) ==
    CASE s = "Start" -> Err("InternalStateError")
      [] s = "DefiningIdentifier" ->
            IF Len(lex) >= Len(KwWhile) /\ SubSeq(lex, 1, Len(KwWhile)) = KwWhile
               THEN Ok("Keyword", lex)
               ELSE Ok("Identifier", lex)
      [] s = "DefiningInteger" -> Ok("Number", lex)
      [] s = "DefiningReal" -> Ok("Real", lex)

\* mutant: the DefiningReal arm, copied from DefiningInteger, keeps TokenType::Number
basic_RealAsNumber(s, lex) ==
    CASE s = "Start" -> Err("InternalStateError")
      [] s = "DefiningIdentifier" ->
            IF lex = KwWhile THEN Ok("Keyword", lex) ELSE Ok("Identifier", lex)
      [] s = "DefiningInteger" -> Ok("Number", lex)
      [] s = "DefiningReal" -> Ok("Number", lex)

basic(s, lex) ==
    CASE s = "Start" -> Err("InternalStateError")
      [] s = "DefiningIdentifier" ->
            IF lex = KwWhile THEN Ok("Keyword", lex) ELSE Ok("Identifier", lex)
      [] s = "DefiningInteger" -> Ok("Number", lex)
      [] s = "DefiningReal" -> Ok("Real", lex)

\* ------------------------------------------------------ output line of main
\* format!("{:?}", tok.ty): the derived Debug name of the variant
DebugName(ty) ==
    CASE ty = "Identifier" -> <<"I", "d", "e", "n", "t", "i", "f", "i", "e", "r">>
      [] ty = "Number" -> <<"N", "u", "m", "b", "e", "r">>
      [] ty = "Real" -> <<"R", "e", "a", "l">>
      [] ty = "Separator" -> <<"S", "e", "p", "a", "r", "a", "t", "o", "r">>
      [] ty = "Operator" -> <<"O", "p", "e", "r", "a", "t", "o", "r">>
      [] ty = "Keyword" -> <<"K", "e", "y", "w", "o", "r", "d">>

\* mutant: the field is left-aligned ({:<10})
PadLeft10_LeftAlign(s) ==
    IF Len(s) >= 10 THEN s ELSE s \o [k \in 1..(10 - Len(s)) |-> " "]

\* {:>10}: right-align in a field of width 10, never truncating
PadLeft10(s) ==
    IF Len(s) >= 10 THEN s ELSE [k \in 1..(10 - Len(s)) |-> " "] \o s

\* writeln!(f, "{:>10} = {}", format!("{:?}", tok.ty), tok.lex), without the newline
FormatLine(tok) == PadLeft10(DebugName(tok.ty)) \o <<" ", "=", " ">> \o tok.lex

\* ------------------------------------------------------------------ inputs
WhileInput ==
    <<"w", "h", "i", "l", "e", " ", "(", "x", " ", "<", " ", "1", "0", ")", " ", ";">>

DotsInput == <<"1", "2", "3", ".", "4", "5", ".", "6">>

WhitespaceInput == <<" ", "\t", "\r", "\n">>

SampleInputs ==
    { WhileInput, DotsInput, WhitespaceInput,
      KwWhile,
      <<"w", "h", "i", "l", "e", "x">>,
      <<"w", "h", "i", "l">>,
      <<"w", "h", "i", "l", "e", ";">>,
      <<"1", "2", "3">>,
      <<"1", "2", "3", ".", "4", "5">>,
      <<"1", "2", ".">>,
      <<"1", "a">>,
      <<"1", ".", "5", "x">>,
      <<"a", "1">>,
      <<"a", "1", "b", "2", ">">>,
      <<"(">>, <<")">>, <<";">>, <<"<">>, <<">">>, <<"=">>,
      <<" ", "\n", "=">>,
      <<"x", "=", "4", "2", ";">> }

\* characters of the enumerated inputs: one or two of each class
Alphabet == {" ", "\t", ".", "(", "<", "1", "a"}

BoundedInputs == UNION { [1..n -> Alphabet] : n \in 0..MaxLen }

Inputs == SampleInputs \cup BoundedInputs

\* ------------------------------------------------------------------- state
VARIABLES
    b,            \* main: the text read from input_scode.txt
    chas,         \* the cursor: the characters not yet consumed
    pc,           \* "main" | "lexer" | "match" | "exit"
    st,           \* lexer: the phase
    lexeme,       \* lexer: the accumulated lexeme
    val,          \* main: the result of the last call of lexer
    f,            \* main: lines written to the BufWriter, not yet flushed
    output_file,  \* lines that reached output_file.txt
    stderr,       \* errors reported on the diagnostic output
    status,       \* "running" | "success" (exit 0) | "failure" (exit 1)
    start,        \* history: the cursor at entry to the current call
    iters,        \* history: iterations of `loop` in the current call
    hist          \* history: one record per returned call of lexer

vars == <<b, chas, pc, st, lexeme, val, f, output_file, stderr, status,
          start, iters, hist>>

lexerVars == <<st, lexeme, start, iters>>

mainVars == <<f, output_file, stderr, status>>

\* The state after `let mut i = b.chars().peekable()` and the creation of f.
\* st and lexeme get their values at each entry to lexer (MainCall).
Init ==
    /\ b \in Inputs
    /\ chas = b
    /\ pc = "main"
    /\ st = "Start"
    /\ lexeme = <<>>
    /\ val = NoVal
    /\ f = <<>>
    /\ output_file = <<>>
    /\ stderr = <<>>
    /\ status = "running"
    /\ start = b
    /\ iters = 0
    /\ hist = <<>>

\* --------------------------------------------------------------- lexer
\* `return v` out of lexer, with the phase s, lexeme lex and cursor rest it leaves
Return(v, s, lex, rest) ==
    /\ val' = v
    /\ pc' = "match"
    /\ hist' = Append(hist, [val |-> v, st |-> s, lexeme |-> lex, chas |-> rest,
                             start |-> start, iters |-> iters + 1])

\* keep looping
Continue ==
    /\ pc' = "lexer"
    /\ UNCHANGED <<val, hist>>

\* mutant: the lexeme buffer outlives the call and is not cleared on entry
MainCall_KeepsLexeme ==
    /\ pc = "main"
    /\ pc' = "lexer"
    /\ st' = "Start"
    /\ lexeme' = lexeme
    /\ start' = chas
    /\ iters' = 0
    /\ UNCHANGED <<b, chas, val, hist, mainVars>>

\* main: let val = lexer(&mut i); lexer: the two `let mut`
MainCall ==
    /\ pc = "main"
    /\ pc' = "lexer"
    /\ st' = "Start"
    /\ lexeme' = <<>>
    /\ start' = chas
    /\ iters' = 0
    /\ UNCHANGED <<b, chas, val, hist, mainVars>>

\* mutant: an exhausted stream is Eof in every phase, the pending lexeme is lost
LexEof_AlwaysEof ==
    /\ pc = "lexer"
    /\ chas = <<>>
    /\ iters' = iters + 1
    /\ Return(Err("Eof"), st, lexeme, chas)
    /\ UNCHANGED <<b, chas, st, lexeme, start, mainVars>>

\* mutant: the exhausted stream always finalizes, the Start arm is missing
LexEof_AlwaysFinalize ==
    /\ pc = "lexer"
    /\ chas = <<>>
    /\ iters' = iters + 1
    /\ Return(basic(st, lexeme), st, lexeme, chas)
    /\ UNCHANGED <<b, chas, st, lexeme, start, mainVars>>

\* chas.peek() is None
LexEof ==
    /\ pc = "lexer"
    /\ chas = <<>>
    /\ iters' = iters + 1
    /\ Return(IF st = "Start" THEN Err("Eof") ELSE basic(st, lexeme), st, lexeme, chas)
    /\ UNCHANGED <<b, chas, st, lexeme, start, mainVars>>

\* mutant: a terminating whitespace is only peeked, as a separator is
LexWhitespace_LeavesTerminator ==
    /\ pc = "lexer"
    /\ chas # <<>>
    /\ IsWhitespace(Head(chas))
    /\ iters' = iters + 1
    /\ IF st = "Start"
          THEN /\ chas' = Tail(chas)
               /\ Continue
          ELSE /\ chas' = chas
               /\ Return(basic(st, lexeme), st, lexeme, chas)
    /\ UNCHANGED <<b, st, lexeme, start, mainVars>>

\* ' ' | '\t' | '\r' | '\n'
LexWhitespace ==
    /\ pc = "lexer"
    /\ chas # <<>>
    /\ IsWhitespace(Head(chas))
    /\ iters' = iters + 1
    /\ chas' = Tail(chas)
    /\ IF st = "Start"
          THEN Continue
          ELSE Return(basic(st, lexeme), st, lexeme, Tail(chas))
    /\ UNCHANGED <<b, st, lexeme, start, mainVars>>

\* mutant: a dot is accepted in DefiningReal as well
LexDot_RealAcceptsDot ==
    /\ pc = "lexer"
    /\ chas # <<>>
    /\ IsDot(Head(chas))
    /\ iters' = iters + 1
    /\ IF st \in {"DefiningInteger", "DefiningReal"}
          THEN /\ st' = "DefiningReal"
               /\ lexeme' = Append(lexeme, ".")
               /\ chas' = Tail(chas)
               /\ Continue
          ELSE /\ Return(Err("IllegalDot"), st, lexeme, chas)
               /\ UNCHANGED <<st, lexeme, chas>>
    /\ UNCHANGED <<b, start, mainVars>>

\* mutant: chas.next() is called before the match on st, as in the whitespace arm
LexDot_ConsumesFirst ==
    /\ pc = "lexer"
    /\ chas # <<>>
    /\ IsDot(Head(chas))
    /\ iters' = iters + 1
    /\ chas' = Tail(chas)
    /\ IF st = "DefiningInteger"
          THEN /\ st' = "DefiningReal"
               /\ lexeme' = Append(lexeme, ".")
               /\ Continue
          ELSE /\ Return(Err("IllegalDot"), st, lexeme, Tail(chas))
               /\ UNCHANGED <<st, lexeme>>
    /\ UNCHANGED <<b, start, mainVars>>

\* mutant: lexeme.push('.') is missing
LexDot_NoPush ==
    /\ pc = "lexer"
    /\ chas # <<>>
    /\ IsDot(Head(chas))
    /\ iters' = iters + 1
    /\ IF st = "DefiningInteger"
          THEN /\ st' = "DefiningReal"
               /\ lexeme' = lexeme
               /\ chas' = Tail(chas)
               /\ Continue
          ELSE /\ Return(Err("IllegalDot"), st, lexeme, chas)
               /\ UNCHANGED <<st, lexeme, chas>>
    /\ UNCHANGED <<b, start, mainVars>>

\* mutant: a leading dot starts a real (".5"), Start is accepted like DefiningInteger
LexDot_StartToReal ==
    /\ pc = "lexer"
    /\ chas # <<>>
    /\ IsDot(Head(chas))
    /\ iters' = iters + 1
    /\ IF st \in {"Start", "DefiningInteger"}
          THEN /\ st' = "DefiningReal"
               /\ lexeme' = Append(lexeme, ".")
               /\ chas' = Tail(chas)
               /\ Continue
          ELSE /\ Return(Err("IllegalDot"), st, lexeme, chas)
               /\ UNCHANGED <<st, lexeme, chas>>
    /\ UNCHANGED <<b, start, mainVars>>

\* '.'
LexDot ==
    /\ pc = "lexer"
    /\ chas # <<>>
    /\ IsDot(Head(chas))
    /\ iters' = iters + 1
    /\ IF st = "DefiningInteger"
          THEN /\ st' = "DefiningReal"
               /\ lexeme' = Append(lexeme, ".")
               /\ chas' = Tail(chas)
               /\ Continue
          ELSE /\ Return(Err("IllegalDot"), st, lexeme, chas)
               /\ UNCHANGED <<st, lexeme, chas>>
    /\ UNCHANGED <<b, start, mainVars>>

\* mutant: chas.next() is called before the match on st, as in the whitespace arm
LexSeparator_ConsumesFirst ==
    /\ pc = "lexer"
    /\ chas # <<>>
    /\ IsSeparator(Head(chas))
    /\ iters' = iters + 1
    /\ chas' = Tail(chas)
    /\ IF st = "Start"
          THEN Return(Ok("Separator", to_string(Head(chas))), st, lexeme, Tail(chas))
          ELSE Return(basic(st, lexeme), st, lexeme, Tail(chas))
    /\ UNCHANGED <<b, st, lexeme, start, mainVars>>

\* '(' | ')' | ';'
LexSeparator ==
    /\ pc = "lexer"
    /\ chas # <<>>
    /\ IsSeparator(Head(chas))
    /\ iters' = iters + 1
    /\ IF st = "Start"
          THEN /\ chas' = Tail(chas)
               /\ Return(Ok("Separator", to_string(Head(chas))), st, lexeme, Tail(chas))
          ELSE /\ chas' = chas
               /\ Return(basic(st, lexeme), st, lexeme, chas)
    /\ UNCHANGED <<b, st, lexeme, start, mainVars>>

\* mutant: the arm copied from the separator arm keeps TokenType::Separator
LexOperator_AsSeparator ==
    /\ pc = "lexer"
    /\ chas # <<>>
    /\ IsOperator(Head(chas))
    /\ iters' = iters + 1
    /\ IF st = "Start"
          THEN /\ chas' = Tail(chas)
               /\ Return(Ok("Separator", to_string(Head(chas))), st, lexeme, Tail(chas))
          ELSE /\ chas' = chas
               /\ Return(basic(st, lexeme), st, lexeme, chas)
    /\ UNCHANGED <<b, st, lexeme, start, mainVars>>

\* mutant: chas.next() is missing in the Start arm, the operator is returned unconsumed
LexOperator_NoConsume ==
    /\ pc = "lexer"
    /\ chas # <<>>
    /\ IsOperator(Head(chas))
    /\ iters' = iters + 1
    /\ chas' = chas
    /\ IF st = "Start"
          THEN Return(Ok("Operator", to_string(Head(chas))), st, lexeme, chas)
          ELSE Return(basic(st, lexeme), st, lexeme, chas)
    /\ UNCHANGED <<b, st, lexeme, start, mainVars>>

\* '<' | '>' | '='
LexOperator ==
    /\ pc = "lexer"
    /\ chas # <<>>
    /\ IsOperator(Head(chas))
    /\ iters' = iters + 1
    /\ IF st = "Start"
          THEN /\ chas' = Tail(chas)
               /\ Return(Ok("Operator", to_string(Head(chas))), st, lexeme, Tail(chas))
          ELSE /\ chas' = chas
               /\ Return(basic(st, lexeme), st, lexeme, chas)
    /\ UNCHANGED <<b, st, lexeme, start, mainVars>>

\* mutant: a digit starts a number in the identifier phase as it does in Start
LexDigit_ResetsIdentifier ==
    /\ pc = "lexer"
    /\ chas # <<>>
    /\ IsDigit(Head(chas))
    /\ iters' = iters + 1
    /\ chas' = Tail(chas)
    /\ st' = IF st \in {"Start", "DefiningIdentifier"} THEN "DefiningInteger" ELSE st
    /\ lexeme' = Append(lexeme, Head(chas))
    /\ Continue
    /\ UNCHANGED <<b, start, mainVars>>

\* mutant: chas.next() is missing, the digit is peeked again and again
LexDigit_NoConsume ==
    /\ pc = "lexer"
    /\ chas # <<>>
    /\ IsDigit(Head(chas))
    /\ iters' = iters + 1
    /\ chas' = chas
    /\ st' = IF st = "Start" THEN "DefiningInteger" ELSE st
    /\ lexeme' = Append(lexeme, Head(chas))
    /\ Continue
    /\ UNCHANGED <<b, start, mainVars>>

\* '0' ..= '9'
LexDigit ==
    /\ pc = "lexer"
    /\ chas # <<>>
    /\ IsDigit(Head(chas))
    /\ iters' = iters + 1
    /\ chas' = Tail(chas)
    /\ st' = IF st = "Start" THEN "DefiningInteger" ELSE st
    /\ lexeme' = Append(lexeme, Head(chas))
    /\ Continue
    /\ UNCHANGED <<b, start, mainVars>>

\* mutant: the error arm is missing, a numeric lexeme goes on as an identifier
LexOther_NoError ==
    /\ pc = "lexer"
    /\ chas # <<>>
    /\ IsOther(Head(chas))
    /\ iters' = iters + 1
    /\ chas' = Tail(chas)
    /\ lexeme' = Append(lexeme, Head(chas))
    /\ st' = "DefiningIdentifier"
    /\ Continue
    /\ UNCHANGED <<b, start, mainVars>>

\* _
LexOther ==
    /\ pc = "lexer"
    /\ chas # <<>>
    /\ IsOther(Head(chas))
    /\ iters' = iters + 1
    /\ chas' = Tail(chas)
    /\ lexeme' = Append(lexeme, Head(chas))
    /\ CASE st = "Start" -> st' = "DefiningIdentifier" /\ Continue
         [] st = "DefiningIdentifier" -> st' = st /\ Continue
         [] OTHER ->
              /\ st' = st
              /\ Return(Err("InvalidIdentifier"), st, Append(lexeme, Head(chas)),
                        Tail(chas))
    /\ UNCHANGED <<b, start, mainVars>>

\* ---------------------------------------------------------------- main
\* Ok(tok) => writeln!(f, ...)
MainOk ==
    /\ pc = "match"
    /\ val.tag = "Ok"
    /\ f' = Append(f, FormatLine(val))
    /\ pc' = "main"
    /\ UNCHANGED <<b, chas, val, hist, lexerVars, output_file, stderr, status>>

\* mutant: f.flush()? is missing; process::exit drops the BufWriter unflushed
MainErr_NoFlush ==
    /\ pc = "match"
    /\ val.tag = "Err"
    /\ output_file' = output_file
    /\ f' = f
    /\ IF val.err = "Eof"
          THEN /\ status' = "success"
               /\ stderr' = stderr
          ELSE /\ status' = "failure"
               /\ stderr' = Append(stderr, val.err)
    /\ pc' = "exit"
    /\ UNCHANGED <<b, chas, val, hist, lexerVars>>

\* Err(e) => flush, then exit(0) on Eof, report and exit(1) otherwise
MainErr ==
    /\ pc = "match"
    /\ val.tag = "Err"
    /\ output_file' = output_file \o f
    /\ f' = <<>>
    /\ IF val.err = "Eof"
          THEN /\ status' = "success"
               /\ stderr' = stderr
          ELSE /\ status' = "failure"
               /\ stderr' = Append(stderr, val.err)
    /\ pc' = "exit"
    /\ UNCHANGED <<b, chas, val, hist, lexerVars>>

Next ==
    \/ MainCall
    \/ LexEof
    \/ LexWhitespace
    \/ LexDot
    \/ LexSeparator
    \/ LexOperator
    \/ LexDigit
    \/ LexOther
    \/ MainOk
    \/ MainErr

Spec == Init /\ [][Next]_vars

\* The program is sequential and runs every step it can: main loops until
\* process::exit, and lexer loops until a return.
FairSpec == Spec /\ WF_vars(Next)

\* ------------------------------------------------------------- type check
TypeOK ==
    /\ b \in Inputs
    /\ pc \in {"main", "lexer", "match", "exit"}
    /\ st \in States
    /\ val.tag \in {"None", "Ok", "Err"}
    /\ val.tag = "Ok" => val.ty \in TokenType
    /\ val.tag = "Err" => val.err \in LexerError
    /\ status \in {"running", "success", "failure"}
    /\ iters \in Nat

\* ================================================================ claims
\* the results returned so far, in call order
Vals == [k \in 1..Len(hist) |-> hist[k].val]

IsPrefix(s, t) == Len(s) <= Len(t) /\ SubSeq(t, 1, Len(s)) = s

\* the characters consumed by the k-th call
Consumed(k) == SubSeq(hist[k].start, 1, Len(hist[k].start) - Len(hist[k].chas))

WsChars == {" ", "\t", "\r", "\n"}

SepChars == {"(", ")", ";"}

OpChars == {"<", ">", "="}

DigitChars == {"0", "1", "2", "3", "4", "5", "6", "7", "8", "9"}

OnlyWs(s) == \A k \in 1..Len(s) : s[k] \in WsChars

\* ---------------------------------------------------------------- C1
WhileExpected ==
    << Ok("Keyword", <<"w", "h", "i", "l", "e">>),
       Ok("Separator", <<"(">>),
       Ok("Identifier", <<"x">>),
       Ok("Operator", <<"<">>),
       Ok("Number", <<"1", "0">>),
       Ok("Separator", <<")">>),
       Ok("Separator", <<";">>),
       Err("Eof") >>

\* C1: on the input "while (x < 10) ;" the successive calls of lexer return
\* Keyword("while"), Separator("("), Identifier("x"), Operator("<"),
\* Number("10"), Separator(")"), Separator(";") and then Eof on the eighth
\* call: the results so far are always a prefix of that list, and the run
\* ends with the whole list.
C1_WhileSequence ==
    b = WhileInput =>
        /\ IsPrefix(Vals, WhileExpected)
        /\ pc = "exit" => Vals = WhileExpected

C1_Witness ==
    /\ b = WhileInput
    /\ pc = "exit"
    /\ Len(hist) = 8
    /\ hist[8].val = Err("Eof")

\* ---------------------------------------------------------------- C2
\* C2: on an input made only of whitespace (the empty input included) the
\* first call of lexer returns Eof, no token is produced or written, and the
\* phase stays Start with an empty lexeme while the whitespace is skipped.
C2_WhitespaceOnlyEof ==
    OnlyWs(b) =>
        /\ st = "Start"
        /\ lexeme = <<>>
        /\ f = <<>>
        /\ output_file = <<>>
        /\ hist # <<>> => Vals = <<Err("Eof")>>
        /\ pc = "exit" => Vals = <<Err("Eof")>> /\ chas = <<>>

C2_Witness ==
    /\ b = WhitespaceInput
    /\ pc = "exit"
    /\ Vals = <<Err("Eof")>>
    /\ hist[1].iters = 5

\* ---------------------------------------------------------------- C3
C3_Kind(s, lex) ==
    CASE s = "DefiningIdentifier" ->
            IF lex = <<"w", "h", "i", "l", "e">> THEN "Keyword" ELSE "Identifier"
      [] s = "DefiningInteger" -> "Number"
      [] s = "DefiningReal" -> "Real"

\* C3: a token finalized from an accumulated lexeme has that lexeme unchanged
\* and a kind fixed by the phase and the lexeme alone: in the identifier phase
\* Keyword exactly when the lexeme is "while" and Identifier otherwise
\* ("whilex" and the prefix "whil" are Identifier), Number in the integer
\* phase, Real in the real phase.
C3_FinalizeClassifies ==
    /\ \A k \in 1..Len(hist) :
          (hist[k].val.tag = "Ok" /\ hist[k].st # "Start") =>
              /\ hist[k].val.lex = hist[k].lexeme
              /\ hist[k].val.ty = C3_Kind(hist[k].st, hist[k].lexeme)
    /\ \A k \in 1..Len(hist) :
          (hist[k].val.tag = "Ok" /\ hist[k].val.ty = "Keyword") =>
              hist[k].val.lex = <<"w", "h", "i", "l", "e">>
    /\ (b = <<"w", "h", "i", "l", "e", "x">> /\ hist # <<>>) =>
          hist[1].val = Ok("Identifier", <<"w", "h", "i", "l", "e", "x">>)
    /\ (b = <<"w", "h", "i", "l">> /\ hist # <<>>) =>
          hist[1].val = Ok("Identifier", <<"w", "h", "i", "l">>)
    /\ (b = <<"w", "h", "i", "l", "e">> /\ hist # <<>>) =>
          hist[1].val = Ok("Keyword", <<"w", "h", "i", "l", "e">>)
    /\ (b = <<"1", "2", "3">> /\ hist # <<>>) =>
          hist[1].val = Ok("Number", <<"1", "2", "3">>)
    /\ (b = <<"1", "2", "3", ".", "4", "5">> /\ hist # <<>>) =>
          hist[1].val = Ok("Real", <<"1", "2", "3", ".", "4", "5">>)

C3_Witness ==
    /\ b = <<"w", "h", "i", "l", "e", "x">>
    /\ pc = "match"
    /\ st = "DefiningIdentifier"
    /\ val = Ok("Identifier", <<"w", "h", "i", "l", "e", "x">>)

\* ---------------------------------------------------------------- C4
C4_Step ==
    (pc = "lexer" /\ st = "Start" /\ chas # <<>>
        /\ Head(chas) \in SepChars \cup OpChars) =>
        /\ pc' = "match"
        /\ chas' = Tail(chas)
        /\ val' = Ok(IF Head(chas) \in SepChars THEN "Separator" ELSE "Operator",
                     <<Head(chas)>>)

C4_Calls ==
    \A k \in 1..Len(hist) :
        (hist[k].val.tag = "Ok" /\ hist[k].val.ty \in {"Separator", "Operator"}) =>
            LET used == Consumed(k) IN
            /\ used # <<>>
            /\ hist[k].val.lex = <<used[Len(used)]>>
            /\ \A j \in 1..(Len(used) - 1) : used[j] \in WsChars
            /\ hist[k].val.ty = "Separator" <=> used[Len(used)] \in SepChars
            /\ hist[k].val.ty = "Operator" <=> used[Len(used)] \in OpChars

\* C4: when a separator or an operator is the pending character in phase
\* Start, the call consumes exactly that character and returns at once a
\* Separator, respectively Operator, token whose lexeme is that character;
\* such a call has consumed nothing but skipped whitespace before it.
C4_SingleCharToken == [][C4_Step]_vars /\ []C4_Calls

C4_Witness ==
    /\ pc = "match"
    /\ \E j, k \in 1..Len(hist) :
          /\ hist[j].val = Ok("Operator", <<"<">>)
          /\ hist[k].val = Ok("Separator", <<";">>)
          /\ Len(Consumed(k)) = 2

\* ---------------------------------------------------------------- C5
C5_Step ==
    (pc = "lexer" /\ chas # <<>> /\ Head(chas) = ".") =>
        IF st = "DefiningInteger"
           THEN /\ pc' = "lexer"
                /\ chas' = Tail(chas)
                /\ lexeme' = Append(lexeme, ".")
                /\ st' = "DefiningReal"
           ELSE /\ pc' = "match"
                /\ val' = Err("IllegalDot")
                /\ chas' = chas
                /\ st' = st

C5_Calls ==
    \A k \in 1..Len(hist) :
        hist[k].val = Err("IllegalDot") =>
            /\ hist[k].st \in {"Start", "DefiningIdentifier", "DefiningReal"}
            /\ hist[k].chas # <<>>
            /\ Head(hist[k].chas) = "."

\* C5: a dot peeked in the phase Start, DefiningIdentifier or DefiningReal
\* makes the call fail with IllegalDot without consuming the dot (the dot is
\* still the next character of the cursor after the call); a dot peeked in
\* DefiningInteger is consumed and appended and the phase becomes DefiningReal.
C5_DotRule == [][C5_Step]_vars /\ []C5_Calls

C5_Witness ==
    /\ pc = "match"
    /\ val = Err("IllegalDot")
    /\ st = "DefiningReal"
    /\ lexeme = <<"1", ".">>
    /\ chas = <<".", "1">>

\* ---------------------------------------------------------------- C6
\* C6 as stated: lexer on "123.45.6" fails with IllegalDot having consumed
\* the input through the second dot, so that the remainder is "6".
C6_Original ==
    (b = DotsInput /\ pc = "match") =>
        /\ val = Err("IllegalDot")
        /\ chas = <<"6">>

\* C6 (amended): lexer on "123.45.6" fails with IllegalDot on its first call,
\* having consumed the input up to but not including the second dot: the
\* remainder is ".6" and the accumulated lexeme is "123.45".
C6_DotsInputFails ==
    (b = DotsInput /\ hist # <<>>) =>
        /\ Len(hist) = 1
        /\ hist[1].val = Err("IllegalDot")
        /\ hist[1].chas = <<".", "6">>
        /\ hist[1].lexeme = <<"1", "2", "3", ".", "4", "5">>
        /\ chas = <<".", "6">>

C6_Witness ==
    /\ b = DotsInput
    /\ pc = "match"
    /\ val = Err("IllegalDot")
    /\ Len(b) - Len(chas) = 6

\* ---------------------------------------------------------------- C7
C7_Fallback(c) == c \notin WsChars \cup {"."} \cup SepChars \cup OpChars \cup DigitChars

C7_Step ==
    (pc = "lexer" /\ chas # <<>> /\ C7_Fallback(Head(chas))
        /\ st \in {"DefiningInteger", "DefiningReal"}) =>
        /\ pc' = "match"
        /\ val' = Err("InvalidIdentifier")
        /\ chas' = Tail(chas)

C7_Calls ==
    /\ \A k \in 1..Len(hist) :
          hist[k].val = Err("InvalidIdentifier") =>
              LET used == Consumed(k) IN
              /\ hist[k].st \in {"DefiningInteger", "DefiningReal"}
              /\ used # <<>>
              /\ C7_Fallback(used[Len(used)])
    /\ (b \in {<<"1", "a">>, <<"1", ".", "5", "x">>} /\ hist # <<>>) =>
          /\ Vals = <<Err("InvalidIdentifier")>>
          /\ f = <<>>
          /\ output_file = <<>>

\* C7: a fallback-class character peeked in the phase DefiningInteger or
\* DefiningReal makes the call fail with InvalidIdentifier ("1a" and "1.5x"
\* fail so); the offending character is consumed, nothing after it is, and
\* no token is returned for the digits accumulated so far.
C7_InvalidIdentifier == [][C7_Step]_vars /\ []C7_Calls

C7_Witness ==
    /\ pc = "match"
    /\ val = Err("InvalidIdentifier")
    /\ st = "DefiningReal"
    /\ b = <<"1", ".", "a", "(">>
    /\ chas = <<"(">>

\* ---------------------------------------------------------------- C8
C8_NotWs(c) == c \notin WsChars

C8_Step ==
    (pc = "lexer" /\ st = "DefiningIdentifier" /\ chas # <<>>
        /\ Head(chas) \notin WsChars \cup {"."} \cup SepChars \cup OpChars) =>
        /\ pc' = "lexer"
        /\ st' = "DefiningIdentifier"
        /\ chas' = Tail(chas)
        /\ lexeme' = Append(lexeme, Head(chas))

C8_Calls ==
    /\ \A k \in 1..Len(hist) :
          LET used == Consumed(k)
              run == SelectSeq(used, C8_NotWs)
          IN  (run # <<>> /\ C7_Fallback(run[1])) =>
                 /\ hist[k].val # Err("InvalidIdentifier")
                 /\ hist[k].val.tag = "Ok" =>
                       /\ hist[k].val.ty \in {"Identifier", "Keyword"}
                       /\ hist[k].val.lex = run
                       /\ \A j \in 1..Len(run) :
                             run[j] \in DigitChars \/ C7_Fallback(run[j])
                       /\ \/ used[Len(used)] \in WsChars
                          \/ hist[k].chas = <<>>
                          \/ Head(hist[k].chas) \in SepChars \cup OpChars
    /\ (b = <<"a", "1">> /\ hist # <<>>) => hist[1].val = Ok("Identifier", <<"a", "1">>)

\* C8: in the phase DefiningIdentifier every digit and every fallback-class
\* character is consumed and appended and the phase stays DefiningIdentifier;
\* a call whose token starts with a fallback character never fails with
\* InvalidIdentifier, and when it returns a token the token is an Identifier
\* or Keyword whose lexeme is the whole run of digits and fallback characters
\* up to the terminator or the end of input ("a1" gives Identifier "a1").
C8_IdentifierRun == [][C8_Step]_vars /\ []C8_Calls

C8_Witness ==
    /\ b = <<"a", "1", "b", "2", ">">>
    /\ pc = "match"
    /\ val = Ok("Identifier", <<"a", "1", "b", "2">>)
    /\ chas = <<">">>

\* ---------------------------------------------------------------- C9
C9_Step ==
    (pc = "lexer" /\ st # "Start" /\ chas # <<>>
        /\ Head(chas) \in SepChars \cup OpChars) =>
        /\ pc' = "match"
        /\ chas' = chas
        /\ val' = Ok(C3_Kind(st, lexeme), lexeme)

C9_Calls ==
    \A k \in 1..Len(hist) :
        (hist[k].val.tag = "Ok" /\ hist[k].st # "Start" /\ hist[k].chas # <<>>
            /\ Head(hist[k].chas) \in SepChars \cup OpChars) =>
            /\ k < Len(hist) =>
                  hist[k + 1].val =
                      Ok(IF Head(hist[k].chas) \in SepChars THEN "Separator"
                                                            ELSE "Operator",
                         <<Head(hist[k].chas)>>)
            /\ pc = "exit" => k < Len(hist)

\* C9: a separator or operator peeked in a phase other than Start is not
\* consumed: the call returns the finalized pending token, and the next call
\* on the same cursor returns that separator or operator as a one-character
\* token of its own.
C9_TerminatorNotConsumed == [][C9_Step]_vars /\ []C9_Calls

C9_Witness ==
    /\ b = <<"x", "=", "4", "2", ";">>
    /\ Len(hist) = 4
    /\ hist[3].val = Ok("Number", <<"4", "2">>)
    /\ hist[3].chas = <<";">>
    /\ hist[4].val = Ok("Separator", <<";">>)

\* ---------------------------------------------------------------- C10
C10_Step ==
    (pc = "lexer" /\ chas = <<>>) =>
        /\ pc' = "match"
        /\ chas' = <<>>
        /\ val' = IF st = "Start" THEN Err("Eof") ELSE Ok(C3_Kind(st, lexeme), lexeme)

C10_Calls ==
    /\ \A k \in 1..Len(hist) :
          (hist[k].val.tag = "Ok" /\ hist[k].chas = <<>>) =>
              /\ k < Len(hist) => (Len(hist) = k + 1 /\ hist[k + 1].val = Err("Eof"))
              /\ pc = "exit" => k < Len(hist)
    /\ (b \in {<<"w", "h", "i", "l", "e">>, <<"w", "h", "i", "l", "e", ";">>}
           /\ hist # <<>>) =>
          hist[1].val = Ok("Keyword", <<"w", "h", "i", "l", "e">>)

C10_LastTokenPending == pc = "match" /\ val.tag = "Ok" /\ chas = <<>>

C10_EofReturned == pc = "match" /\ val = Err("Eof") /\ chas = <<>>

\* C10: when the stream is exhausted in a phase other than Start the call
\* returns the finalized pending token (kind and lexeme as after a
\* terminator), and when it is exhausted in Start the call returns Eof; so a
\* call that returns the last token of an input with no trailing terminator
\* is followed by a call that returns Eof.
C10_ExhaustedStream ==
    /\ [][C10_Step]_vars
    /\ []C10_Calls
    /\ C10_LastTokenPending ~> C10_EofReturned

C10_Witness ==
    /\ b = <<"1", "2", "3", ".", "4", "5">>
    /\ pc = "exit"
    /\ Len(hist) = 2
    /\ hist[1].val = Ok("Real", <<"1", "2", "3", ".", "4", "5">>)
    /\ hist[1].iters = 7
    /\ hist[2].val = Err("Eof")

\* ---------------------------------------------------------------- C11
\* the number of leading whitespace characters of s
C11_LeadingWs(s) ==
    Cardinality({j \in 1..Len(s) : \A i \in 1..j : s[i] \in WsChars})

\* what the k-th call consumed after the whitespace it skipped
C11_Body(k) ==
    LET used == Consumed(k) IN SubSeq(used, C11_LeadingWs(used) + 1, Len(used))

\* C11 as stated: after every call that returns a token the cursor is exactly
\* after the last character of the token's lexeme (which, for a token ended
\* by an unconsumed delimiter, is the first character of the next token),
\* whatever ended the token, a whitespace followed by more whitespace included.
C11_Original ==
    \A k \in 1..Len(hist) :
        hist[k].val.tag = "Ok" => C11_Body(k) = hist[k].val.lex

\* C11 (amended): after a call that returns a token, the cursor is exactly
\* after the last character of the lexeme when the token is a separator or
\* operator, or was ended by an unconsumed separator or operator or by the end
\* of input; when the token was ended by whitespace the cursor is one
\* character further, after that single whitespace character, and any
\* whitespace that follows it is left on the cursor.
C11_CursorAfterToken ==
    \A k \in 1..Len(hist) :
        hist[k].val.tag = "Ok" =>
            LET body == C11_Body(k)
                lex == hist[k].val.lex
                rest == hist[k].chas
            IN  \/ /\ body = lex
                   /\ hist[k].st = "Start"
                \/ /\ body = lex
                   /\ hist[k].st # "Start"
                   /\ rest = <<>> \/ Head(rest) \in SepChars \cup OpChars
                \/ /\ hist[k].st # "Start"
                   /\ Len(body) = Len(lex) + 1
                   /\ SubSeq(body, 1, Len(lex)) = lex
                   /\ body[Len(body)] \in WsChars

C11_Witness ==
    /\ b = <<"a", " ", "\t", "1">>
    /\ pc = "match"
    /\ val = Ok("Identifier", <<"a">>)
    /\ chas = <<"\t", "1">>

\* ---------------------------------------------------------------- C12
RECURSIVE C12_Concat(_)
\* the lexemes of the tokens returned by the first n calls, concatenated
C12_Concat(n) ==
    IF n = 0 THEN <<>>
    ELSE C12_Concat(n - 1) \o (IF hist[n].val.tag = "Ok" THEN hist[n].val.lex ELSE <<>>)

\* where in b the lexeme of the k-th call starts, minus one
C12_Offset(k) == (Len(b) - Len(hist[k].start)) + C11_LeadingWs(Consumed(k))

\* C12: every returned token has a non-empty lexeme that is a contiguous
\* piece of the source text, made of exactly the non-whitespace characters
\* its call consumed, in order; so when the input is lexed up to Eof without
\* error, the lexemes concatenated in order are the input with its whitespace
\* removed.
C12_LexemeIsSourceText ==
    /\ \A k \in 1..Len(hist) :
          hist[k].val.tag = "Ok" =>
              LET lex == hist[k].val.lex IN
              /\ lex # <<>>
              /\ lex = SelectSeq(Consumed(k), C8_NotWs)
              /\ lex = SubSeq(b, C12_Offset(k) + 1, C12_Offset(k) + Len(lex))
    /\ (hist # <<>> /\ hist[Len(hist)].val = Err("Eof")) =>
          C12_Concat(Len(hist)) = SelectSeq(b, C8_NotWs)

C12_Witness ==
    /\ b = <<"1", ".", "\t", "a">>
    /\ pc = "exit"
    /\ status = "success"
    /\ C12_Concat(Len(hist)) = <<"1", ".", "a">>

\* ---------------------------------------------------------------- C13
\* the lines emitted so far, flushed or not
C13_Emitted == output_file \o f

\* the text of an emitted line after the kind field and " = "
C13_LineLexeme(line) == SubSeq(line, 14, Len(line))

C13_Calls ==
    /\ \A k \in 1..(Len(hist) - 1) : hist[k].val.tag = "Ok"
    /\ Len(C13_Emitted) = IF pc \in {"match", "exit"} THEN Len(hist) - 1 ELSE Len(hist)
    /\ \A j \in 1..Len(C13_Emitted) :
          /\ hist[j].val.tag = "Ok"
          /\ C13_LineLexeme(C13_Emitted[j]) = hist[j].val.lex
    /\ pc # "exit" => status = "running" /\ stderr = <<>>
    /\ pc = "exit" =>
          /\ hist # <<>>
          /\ val = hist[Len(hist)].val
          /\ val.tag = "Err"
          /\ f = <<>>
          /\ Len(output_file) = Len(hist) - 1
          /\ status = IF val.err = "Eof" THEN "success" ELSE "failure"
          /\ stderr = IF val.err = "Eof" THEN <<>> ELSE <<val.err>>

C13_Stops ==
    /\ (pc = "match" /\ val.tag = "Err") => pc' = "exit"
    /\ pc = "exit" => UNCHANGED vars

\* C13: the driver calls lexer repeatedly and stops at the first error: on
\* Eof it flushes the output and exits with success, on any other error it
\* flushes, reports the error and exits with failure; after an error no call
\* is made and no line is emitted, and every token returned before the error
\* has been emitted, in order.
C13_DriverStopsAtFirstError ==
    /\ []C13_Calls
    /\ [][C13_Stops]_vars
    /\ (pc = "match" /\ val.tag = "Err") ~> (pc = "exit")

C13_Witness ==
    /\ b = <<"a", "(", "1", "a">>
    /\ pc = "exit"
    /\ status = "failure"
    /\ stderr = <<"InvalidIdentifier">>
    /\ Len(output_file) = 2

\* ---------------------------------------------------------------- C14
\* the kind label in uppercase, right-aligned in 10 columns
C14_UpperField(ty) ==
    CASE ty = "Identifier" -> <<"I", "D", "E", "N", "T", "I", "F", "I", "E", "R">>
      [] ty = "Number" -> <<" ", " ", " ", " ", "N", "U", "M", "B", "E", "R">>
      [] ty = "Real" -> <<" ", " ", " ", " ", " ", " ", "R", "E", "A", "L">>
      [] ty = "Separator" -> <<" ", "S", "E", "P", "A", "R", "A", "T", "O", "R">>
      [] ty = "Operator" -> <<" ", " ", "O", "P", "E", "R", "A", "T", "O", "R">>
      [] ty = "Keyword" -> <<" ", " ", " ", "K", "E", "Y", "W", "O", "R", "D">>

\* the kind label as the variant is spelled, right-aligned in 10 columns
C14_NameField(ty) ==
    CASE ty = "Identifier" -> <<"I", "d", "e", "n", "t", "i", "f", "i", "e", "r">>
      [] ty = "Number" -> <<" ", " ", " ", " ", "N", "u", "m", "b", "e", "r">>
      [] ty = "Real" -> <<" ", " ", " ", " ", " ", " ", "R", "e", "a", "l">>
      [] ty = "Separator" -> <<" ", "S", "e", "p", "a", "r", "a", "t", "o", "r">>
      [] ty = "Operator" -> <<" ", " ", "O", "p", "e", "r", "a", "t", "o", "r">>
      [] ty = "Keyword" -> <<" ", " ", " ", "K", "e", "y", "w", "o", "r", "d">>

\* C14 as stated: the line emitted for a token is its kind label in
\* uppercase, right-aligned in a field of width 10, then " = ", then the
\* lexeme.
C14_Original ==
    \A j \in 1..Len(C13_Emitted) :
        C13_Emitted[j] =
            C14_UpperField(hist[j].val.ty) \o <<" ", "=", " ">> \o hist[j].val.lex

\* C14 (amended): for each token the driver emits one line made of the token
\* kind's name as the variant is spelled (first letter capital, the rest
\* lowercase: "Identifier", "Number", "Real", "Separator", "Operator",
\* "Keyword"), right-aligned in a field of width 10, then " = ", then the
\* literal lexeme.
C14_OutputLine ==
    /\ Len(C13_Emitted) = IF pc \in {"match", "exit"} THEN Len(hist) - 1 ELSE Len(hist)
    /\ \A j \in 1..Len(C13_Emitted) :
          C13_Emitted[j] =
              C14_NameField(hist[j].val.ty) \o <<" ", "=", " ">> \o hist[j].val.lex

C14_Witness ==
    /\ b = WhileInput
    /\ pc = "exit"
    /\ Len(output_file) = 7
    /\ output_file[1] =
          <<" ", " ", " ", "K", "e", "y", "w", "o", "r", "d", " ", "=", " ",
            "w", "h", "i", "l", "e">>

\* ---------------------------------------------------------------- C15
C15_Step ==
    pc = "lexer" =>
        /\ iters' = iters + 1
        /\ Len(chas') < Len(chas) \/ pc' = "match"

C15_Bound ==
    /\ pc = "lexer" => iters = Len(start) - Len(chas)
    /\ pc = "match" => iters <= (Len(start) - Len(chas)) + 1
    /\ \A k \in 1..Len(hist) : hist[k].iters <= Len(hist[k].start) + 1

\* C15: every call of lexer terminates: each iteration of its loop consumes
\* at least one character or returns, so a call makes at most as many
\* iterations as there are characters left when it starts, plus one, and a
\* call that has started does return.
C15_CallTerminates ==
    /\ [][C15_Step]_vars
    /\ []C15_Bound
    /\ (pc = "lexer") ~> (pc = "match")

C15_Witness ==
    /\ b = <<"1", "1", ".", "1">>
    /\ pc = "match"
    /\ iters = Len(b) + 1
    /\ Len(hist) = 1

\* ---------------------------------------------------------------- C16
\* C16: InternalStateError is unreachable: no call of lexer returns it, it is
\* never reported, and every token that basic produced (Identifier, Keyword,
\* Number, Real) was finalized in a phase other than Start.
C16_NoInternalStateError ==
    /\ val # Err("InternalStateError")
    /\ \A k \in 1..Len(hist) :
          /\ hist[k].val # Err("InternalStateError")
          /\ (hist[k].val.tag = "Ok"
                 /\ hist[k].val.ty \in {"Identifier", "Keyword", "Number", "Real"}) =>
                hist[k].st # "Start"
          /\ hist[k].val = Err("Eof") => hist[k].st = "Start"
    /\ \A j \in 1..Len(stderr) : stderr[j] # "InternalStateError"

C16_Witness ==
    /\ b = <<"a", " ", "1">>
    /\ pc = "exit"
    /\ Len(hist) = 3
    /\ hist[1].st = "DefiningIdentifier"
    /\ hist[2].st = "DefiningInteger"
    /\ hist[3].val = Err("Eof")

\* ---------------------------------------------------------------- C17
C17_Inv ==
    /\ pc \in {"lexer", "match"} => (st = "Start" <=> lexeme = <<>>)
    /\ \A k \in 1..Len(hist) : hist[k].st = "Start" <=> hist[k].lexeme = <<>>

C17_Reset ==
    pc = "main" =>
        /\ pc' = "lexer"
        /\ st' = "Start"
        /\ lexeme' = <<>>

\* C17: in every state of a scan the phase is Start exactly when the lexeme
\* is empty, and every call of lexer starts from the phase Start with an
\* empty lexeme, whatever phase and lexeme the previous call ended with.
C17_StartIffEmptyLexeme == []C17_Inv /\ [][C17_Reset]_vars

C17_Witness ==
    /\ pc = "lexer"
    /\ st = "Start"
    /\ lexeme = <<>>
    /\ iters = 0
    /\ Len(hist) = 1
    /\ hist[1].st = "DefiningReal"
    /\ hist[1].lexeme = <<"1", ".", "1">>

\* ---------------------------------------------------------------- C18
C18_Transitions ==
    { <<"Start", "DefiningIdentifier">>,
      <<"Start", "DefiningInteger">>,
      <<"DefiningInteger", "DefiningReal">> }

C18_Step ==
    pc = "lexer" =>
        /\ st' # st => <<st, st'>> \in C18_Transitions
        /\ st' # "Start" \/ st = "Start"
        /\ st = "DefiningIdentifier" => st' = "DefiningIdentifier"
        /\ (st' = "DefiningReal" /\ st # "DefiningReal") =>
              (st = "DefiningInteger" /\ chas # <<>> /\ Head(chas) = ".")

\* C18: within one call of lexer the phase changes only by Start ->
\* DefiningIdentifier, Start -> DefiningInteger and DefiningInteger ->
\* DefiningReal: no step returns to Start, DefiningIdentifier is never left,
\* and DefiningReal is entered only from DefiningInteger on a dot.
C18_PhaseOrder == [][C18_Step]_vars

C18_Witness ==
    /\ pc = "lexer"
    /\ st = "DefiningReal"
    /\ lexeme = <<"1", ".">>
    /\ iters = 3
    /\ chas = <<"a">>

\* ---------------------------------------------------------------- C19
\* the number of calls so far that returned a token
C19_Tokens == Cardinality({k \in 1..Len(hist) : hist[k].val.tag = "Ok"})

C19_Inv ==
    /\ \A k \in 1..Len(hist) : hist[k].val.tag = "Ok" => Len(Consumed(k)) >= 1
    /\ C19_Tokens <= Len(b) - Len(chas)
    /\ C19_Tokens <= Len(b)
    /\ Len(hist) <= Len(b) + 1
    /\ status = "success" => (pc = "exit" /\ chas = <<>>)
    /\ pc = "exit" => (hist # <<>> /\ hist[Len(hist)].val.tag = "Err")

\* C19: the driver loop terminates on every input: every call that returns a
\* token consumes at least one character, so there are at most as many such
\* calls as the input has characters, then a call returns an error and the
\* driver exits; it exits through Eof only when the whole input is consumed.
C19_DriverTerminates == []C19_Inv /\ <>(pc = "exit")

C19_Witness ==
    /\ b = <<"(", "<", "(", "a">>
    /\ pc = "exit"
    /\ status = "success"
    /\ C19_Tokens = Len(b)
    /\ Len(hist) = 5

\* ---------------------------------------------------------------- C20
C20_Shape(ty, lex) ==
    CASE ty = "Number" ->
            /\ lex # <<>>
            /\ \A j \in 1..Len(lex) : lex[j] \in DigitChars
      [] ty = "Real" ->
            /\ lex # <<>>
            /\ lex[1] \in DigitChars
            /\ Cardinality({j \in 1..Len(lex) : lex[j] = "."}) = 1
            /\ \A j \in 1..Len(lex) : lex[j] \in DigitChars \cup {"."}
      [] ty \in {"Identifier", "Keyword"} ->
            /\ lex # <<>>
            /\ lex[1] \notin DigitChars
            /\ \A j \in 1..Len(lex) :
                  lex[j] \notin WsChars \cup {"."} \cup SepChars \cup OpChars
      [] ty = "Separator" -> Len(lex) = 1 /\ lex[1] \in SepChars
      [] ty = "Operator" -> Len(lex) = 1 /\ lex[1] \in OpChars

\* C20: the kind of a returned token fixes the shape of its lexeme: a Number
\* is all digits; a Real starts with a digit and has exactly one dot and
\* otherwise digits, possibly none after the dot ("12." is the Real "12.");
\* an Identifier or Keyword does not start with a digit and has no
\* whitespace, dot, separator or operator; a Separator or Operator is one
\* character.
C20_KindFixesShape ==
    /\ \A k \in 1..Len(hist) :
          hist[k].val.tag = "Ok" => C20_Shape(hist[k].val.ty, hist[k].val.lex)
    /\ (b = <<"1", "2", ".">> /\ hist # <<>>) =>
          hist[1].val = Ok("Real", <<"1", "2", ".">>)

C20_Witness ==
    /\ b = <<"1", "2", ".">>
    /\ pc = "match"
    /\ val = Ok("Real", <<"1", "2", ".">>)
    /\ chas = <<>>

====
